---- MODULE Spec2Model ----
(***************************************************************************)
(* clitodo: a terminal task tracker with two lists (todo, done), a         *)
(* line-oriented persisted file and an immediate-mode UI layer.            *)
(* Strings are sequences of one-character strings, so that prefix          *)
(* matching, line splitting and formatting are computed, not assumed.      *)
(***************************************************************************)
EXTENDS Integers, Sequences, FiniteSets, TLC

\* ---------------------------------------------------------------- bounds
\* Longest generated persisted file, in lines.
MaxLines == 2
\* Cap on the number of items in the two lists together, for the 's' key
\* (every 's' adds an item, without bound).
MaxItems == 2
\* Longest list and largest selection index of an empty list handed to
\* list_up and list_down on their own.
MaxNavLen == 3
MaxNavIndex == 3

\* ------------------------------------------------------------- constants
REGULAR_PAIR == 0
HIGHLIGHT_PAIR == 1

KEY_q == 113
KEY_k == 107
KEY_j == 106
KEY_ENTER == 10
KEY_s == 115
KEY_e == 101
KEY_TAB == 9
\* an unbound printable key ('x'), the read-error value of getch, and a
\* code above 255 (256 + 'q')
KEY_x == 120
KEY_ERR == -1
KEY_HIGH_q == 369

\* `key as u8`: truncation of the i32 key code to 8 bits
U8Modulus == 256
EXIT_SUCCESS == 0
EXIT_FAILURE == 1
EXIT_PANIC == 101

\* Option<T>: None is the empty sequence, Some(v) the sequence of v alone
None == <<>>
Some(v) == <<v>>
\* a path with no file behind it; a file is the sequence of its characters
NoFile == [exists |-> FALSE, bytes |-> <<>>]
File(bytes) == [exists |-> TRUE, bytes |-> bytes]
NoArg == "NoArg"
NoPanic == "NoPanic"

LF == "\n"
CR == "\r"

todo_prefix == <<"T", "O", "D", "O", ":", " ">>
done_prefix == <<"D", "O", "N", "E", ":", " ">>

\* the fixed export file of the 'e' key, and another path
EXPORT_PATH == "TODO"
Paths == {EXPORT_PATH, "tasks.txt"}

\* ------------------------------------------------------ bounded inputs
\* Lines a generated file is made of (each is written with a trailing LF).
LineSet ==
    { todo_prefix \o <<"a">>,
      done_prefix \o <<"c">>,
      <<"N", "O", "T", "E", ":", " ", "x">> }

RECURSIVE JoinLF(_)
JoinLF(ls) == IF ls = <<>> THEN <<>> ELSE Head(ls) \o <<LF>> \o JoinLF(Tail(ls))

\* the scenario file of the specification: TODO: a / TODO: b / DONE: c
ScenarioFile ==
    JoinLF(<<todo_prefix \o <<"a">>, todo_prefix \o <<"b">>, done_prefix \o <<"c">>>>)

\* files outside the generated family: the scenario; CRLF line ends; an item
\* that ends in CR; a last line without a line terminator that ends in CR; an
\* empty item and an item that starts with a prefix; an empty second line
ExtraFiles ==
    { ScenarioFile,
      JoinLF(<<done_prefix \o <<"c", CR>>, todo_prefix \o <<"a", CR>>,
               done_prefix \o <<"b", CR>>>>),
      JoinLF(<<todo_prefix \o <<"a", CR, CR>>>>),
      todo_prefix \o <<"a", CR>>,
      JoinLF(<<done_prefix, done_prefix \o todo_prefix \o <<"a">>>>),
      JoinLF(<<todo_prefix \o <<"b">>, <<>>>>) }

InitFiles ==
    { JoinLF(ls) : ls \in UNION { [1..n -> LineSet] : n \in 0..MaxLines } }
        \cup ExtraFiles

KeyCodes ==
    { KEY_q, KEY_k, KEY_j, KEY_ENTER, KEY_s, KEY_e, KEY_TAB,
      KEY_x, KEY_ERR, KEY_HIGH_q }

VARIABLES
    pc,            \* position of main
    file_path,     \* args.next(): the path argument, or NoArg
    fs,            \* file system: path -> contents or NoFile
    fs0,           \* the file system at process start
    quit, todos, todo_current, dones, done_current, tab,
    ui,            \* the Ui value: list_current, row, col
    screen,        \* the terminal surface: the draw calls since the last erase
    term,          \* calls of initscr and endwin so far
    key,           \* the loop body's `key`: Some(code) from getch to the end of
                   \* the iteration, None outside
    exit_code, stderr, panic

vars == << pc, file_path, fs, fs0, quit, todos, todo_current, dones,
           done_current, tab, ui, screen, term, key, exit_code, stderr, panic >>

model == << quit, todos, todo_current, dones, done_current, tab >>

\* ------------------------------------------------------- pure functions
U8(code) == code % U8Modulus

toggle(status) == IF status = "Todo" THEN "Done" ELSE "Todo"

starts_with(line, prefix) ==
    /\ Len(line) >= Len(prefix)
    /\ SubSeq(line, 1, Len(prefix)) = prefix

\* parse_todo that cuts the prefix one character short
parse_todo_short_cut(line) ==
    IF starts_with(line, todo_prefix)
    THEN Some([status |-> "Todo",
               title |-> SubSeq(line, Len(todo_prefix), Len(line))])
    ELSE IF starts_with(line, done_prefix)
    THEN Some([status |-> "Done",
               title |-> SubSeq(line, Len(done_prefix), Len(line))])
    ELSE None

\* Option<(Status, &str)>: None, or the status and the rest of the line
parse_todo(line) ==
    IF starts_with(line, todo_prefix)
    THEN Some([status |-> "Todo",
               title |-> SubSeq(line, Len(todo_prefix) + 1, Len(line))])
    ELSE IF starts_with(line, done_prefix)
    THEN Some([status |-> "Done",
               title |-> SubSeq(line, Len(done_prefix) + 1, Len(line))])
    ELSE None

list_up(list_current) ==
    IF list_current > 0 THEN list_current - 1 ELSE list_current

\* list_down without the test against the length
list_down_unclamped(list, list_current) == list_current + 1

list_down(list, list_current) ==
    IF list_current + 1 < Len(list) THEN list_current + 1 ELSE list_current

\* Vec::remove(index), indices from 0: the vector without the element
remove(list, index) ==
    SubSeq(list, 1, index) \o SubSeq(list, index + 2, Len(list))

\* list_transfer without the reclamp of the selection index
list_transfer_no_clamp(list_dst, list_src, list_src_curr) ==
    IF list_src_curr < Len(list_src)
    THEN [ dst  |-> Append(list_dst, list_src[list_src_curr + 1]),
           src  |-> remove(list_src, list_src_curr),
           curr |-> list_src_curr ]
    ELSE [dst |-> list_dst, src |-> list_src, curr |-> list_src_curr]

\* list_transfer that puts the moved item in front of the destination
list_transfer_insert_front(list_dst, list_src, list_src_curr) ==
    IF list_src_curr < Len(list_src)
    THEN LET src == remove(list_src, list_src_curr)
         IN  [ dst  |-> <<list_src[list_src_curr + 1]>> \o list_dst,
               src  |-> src,
               curr |-> IF list_src_curr >= Len(src) /\ Len(src) > 0
                        THEN Len(src) - 1
                        ELSE list_src_curr ]
    ELSE [dst |-> list_dst, src |-> list_src, curr |-> list_src_curr]

\* list_transfer that pushes a default (empty) item when nothing is selected
list_transfer_push_default(list_dst, list_src, list_src_curr) ==
    IF list_src_curr < Len(list_src)
    THEN LET src == remove(list_src, list_src_curr)
         IN  [ dst  |-> Append(list_dst, list_src[list_src_curr + 1]),
               src  |-> src,
               curr |-> IF list_src_curr >= Len(src) /\ Len(src) > 0
                        THEN Len(src) - 1
                        ELSE list_src_curr ]
    ELSE [dst |-> Append(list_dst, <<>>), src |-> list_src, curr |-> list_src_curr]

\* list_transfer that removes the selected item without pushing it
list_transfer_drops_item(list_dst, list_src, list_src_curr) ==
    IF list_src_curr < Len(list_src)
    THEN LET src == remove(list_src, list_src_curr)
         IN  [ dst  |-> list_dst,
               src  |-> src,
               curr |-> IF list_src_curr >= Len(src) /\ Len(src) > 0
                        THEN Len(src) - 1
                        ELSE list_src_curr ]
    ELSE [dst |-> list_dst, src |-> list_src, curr |-> list_src_curr]

\* the new (list_dst, list_src, list_src_curr)
list_transfer(list_dst, list_src, list_src_curr) ==
    IF list_src_curr < Len(list_src)
    THEN LET src == remove(list_src, list_src_curr)
             dst == Append(list_dst, list_src[list_src_curr + 1])
         IN  [ dst  |-> dst,
               src  |-> src,
               curr |-> IF list_src_curr >= Len(src) /\ Len(src) > 0
                        THEN Len(src) - 1
                        ELSE list_src_curr ]
    ELSE [dst |-> list_dst, src |-> list_src, curr |-> list_src_curr]

\* writeln!(file, "<prefix>{}", item) for each item of the list
RECURSIVE write_lines(_, _)
write_lines(prefix, list) ==
    IF list = <<>> THEN <<>>
    ELSE prefix \o Head(list) \o <<LF>> \o write_lines(prefix, Tail(list))

\* save_state that writes the done list before the todo list
save_state_done_first(todo_list, done_list) ==
    write_lines(done_prefix, done_list) \o write_lines(todo_prefix, todo_list)

\* the bytes save_state writes into the file it created
save_state(todo_list, done_list) ==
    write_lines(todo_prefix, todo_list) \o write_lines(done_prefix, done_list)

\* BufRead::lines: split at LF; a line that ended in LF loses the LF and then
\* one CR before it; a last line without LF is returned as it is
RECURSIVE lines_from(_, _, _, _)
lines_from(bytes, i, cur, acc) ==
    IF i > Len(bytes)
    THEN IF cur = <<>> THEN acc ELSE Append(acc, cur)
    ELSE IF bytes[i] = LF
    THEN LET line == IF cur # <<>> /\ cur[Len(cur)] = CR
                     THEN SubSeq(cur, 1, Len(cur) - 1)
                     ELSE cur
         IN  lines_from(bytes, i + 1, <<>>, Append(acc, line))
    ELSE lines_from(bytes, i + 1, Append(cur, bytes[i]), acc)

lines(bytes) == lines_from(bytes, 1, <<>>, <<>>)

\* the loop of load_state from 0-based position index on: the lists pushed
\* so far and err = 0, or err = the 1-based number of the line that stopped it
RECURSIVE load_lines(_, _, _, _)
load_lines(ls, index, todo_list, done_list) ==
    IF index >= Len(ls)
    THEN [todos |-> todo_list, dones |-> done_list, err |-> 0]
    ELSE LET parsed == parse_todo(ls[index + 1])
         IN  IF parsed = None
             THEN [todos |-> todo_list, dones |-> done_list, err |-> index + 1]
             ELSE IF parsed[1].status = "Todo"
             THEN load_lines(ls, index + 1, Append(todo_list, parsed[1].title),
                             done_list)
             ELSE load_lines(ls, index + 1, todo_list,
                             Append(done_list, parsed[1].title))

\* load_state that reports the 0-based position of the line
load_state_zero_based(todo_list, done_list, bytes) ==
    LET r == load_lines(lines(bytes), 0, todo_list, done_list)
    IN  [r EXCEPT !.err = IF @ = 0 THEN 0 ELSE @ - 1]

load_state(todo_list, done_list, bytes) ==
    load_lines(lines(bytes), 0, todo_list, done_list)

\* ------------------------------------------------------------ the Ui type
\* A Ui value in the middle of a frame: the three fields, the draw calls
\* made so far and the message of the assertion that aborted the frame.
begin(u, row, col) == [u EXCEPT !.row = row, !.col = col]

label(u, text, pair) ==
    IF u.panic # NoPanic THEN u
    ELSE [u EXCEPT
            !.out = Append(@, [row |-> u.row, col |-> u.col,
                               text |-> text, pair |-> pair]),
            !.row = @ + 1]

begin_list(u, id) ==
    IF u.panic # NoPanic THEN u
    ELSE IF u.list_current # None
    THEN [u EXCEPT !.panic = "NESTED LISTS -> NOT ALLOWED"]
    ELSE [u EXCEPT !.list_current = Some(id)]

\* list_element that highlights from the selected element on
list_element_from_selected(u, text, id) ==
    IF u.panic # NoPanic THEN u
    ELSE IF u.list_current = None
    THEN [u EXCEPT !.panic =
            "LIST ELEMENTS -> NOT ALLOWED TO CREATE ELEMENT OUTSIDE OF LIST"]
    ELSE label(u, text, IF id >= u.list_current[1] THEN HIGHLIGHT_PAIR
                                                   ELSE REGULAR_PAIR)

list_element(u, text, id) ==
    IF u.panic # NoPanic THEN u
    ELSE IF u.list_current = None
    THEN [u EXCEPT !.panic =
            "LIST ELEMENTS -> NOT ALLOWED TO CREATE ELEMENT OUTSIDE OF LIST"]
    ELSE label(u, text, IF u.list_current[1] = id THEN HIGHLIGHT_PAIR ELSE REGULAR_PAIR)

\* end_list that leaves the list context open
end_list_keeps_open(u) == u

end_list(u) ==
    IF u.panic # NoPanic THEN u ELSE [u EXCEPT !.list_current = None]

end(u) == u

formatted_date == <<"dd/mm/yyyy">>
todo_header == <<"[TODO] DONE  ">> \o formatted_date \o <<":">>
done_header == <<" TODO [DONE] ">> \o formatted_date \o <<":">>
separator == <<"------------------------">>
all_done == <<"Everything done, enjoy the day">>
todo_box == <<"[", " ", "]", " ">>
done_box == <<"[", "x", "]", " ">>

\* for (index, item) in list.iter().enumerate() { ui.list_element(...) }
RECURSIVE list_elements(_, _, _, _)
list_elements(u, box, list, index) ==
    IF index >= Len(list) THEN u
    ELSE list_elements(list_element(u, box \o list[index + 1], index),
                       box, list, index + 1)

\* one pass of the render block of the loop, from ui.begin to ui.end
render(u0) ==
    LET u1 == begin(u0, 0, 0)
    IN  IF tab = "Todo"
        THEN LET u2 == label(u1, todo_header, REGULAR_PAIR)
                 u3 == label(u2, separator, REGULAR_PAIR)
                 u4 == begin_list(u3, todo_current)
                 u5 == list_elements(u4, todo_box, todos, 0)
                 u6 == end_list(u5)
                 u7 == IF Len(todos) < 1
                       THEN label(u6, all_done, REGULAR_PAIR)
                       ELSE u6
             IN  end(u7)
        ELSE LET u2 == label(u1, done_header, REGULAR_PAIR)
                 u3 == label(u2, separator, REGULAR_PAIR)
                 u4 == begin_list(u3, done_current)
                 u5 == list_elements(u4, done_box, dones, 0)
                 u6 == end_list(u5)
             IN  end(u6)

\* ------------------------------------------------------------ the program
Init ==
    /\ pc = "main"
    /\ \E p \in Paths, f \in {File(bytes) : bytes \in InitFiles} \cup {NoFile} :
          /\ fs = [q \in Paths |-> IF q = p THEN f ELSE NoFile]
          /\ file_path \in {p, NoArg}
    /\ fs0 = fs
    /\ quit = FALSE
    /\ todos = <<>>
    /\ todo_current = 0
    /\ dones = <<>>
    /\ done_current = 0
    /\ tab = "Todo"
    /\ ui = [list_current |-> None, row |-> 0, col |-> 0]
    /\ screen = <<>>
    /\ term = [initscr |-> 0, endwin |-> 0]
    /\ key = None
    /\ exit_code = None
    /\ stderr = <<>>
    /\ panic = NoPanic

\* a panic: the process aborts where it stands, the terminal is left as it is
Abort(message) ==
    /\ pc' = "aborted"
    /\ panic' = message
    /\ exit_code' = Some(EXIT_PANIC)

\* process::exit(1) after a diagnostic on standard error
Exit1(diagnostic) ==
    /\ pc' = "exited"
    /\ stderr' = diagnostic
    /\ exit_code' = Some(EXIT_FAILURE)
    /\ UNCHANGED panic

\* main, the argument check
MainArgs ==
    /\ pc = "main"
    /\ IF file_path = NoArg
       THEN Exit1(<<"Usage: todo-rs <file-path>", "ERROR: no filepath provided">>)
       ELSE pc' = "load_state" /\ UNCHANGED <<stderr, exit_code, panic>>
    /\ UNCHANGED <<file_path, fs, fs0, model, ui, screen, term, key>>

\* LoadState whose None branch prints the diagnostic and goes on to the UI
LoadState_no_exit ==
    /\ pc = "load_state"
    /\ IF ~fs[file_path].exists
       THEN /\ Abort("File::open")
            /\ UNCHANGED <<todos, dones, stderr>>
       ELSE LET r == load_state(todos, dones, fs[file_path].bytes)
            IN  /\ todos' = r.todos
                /\ dones' = r.dones
                /\ pc' = "initscr"
                /\ stderr' = IF r.err # 0
                             THEN <<[path |-> file_path, line |-> r.err,
                                     text |-> "ERROR: item line format incorrectly"]>>
                             ELSE stderr
                /\ UNCHANGED <<exit_code, panic>>
    /\ UNCHANGED <<file_path, fs, fs0, quit, todo_current, done_current, tab,
                   ui, screen, term, key>>

\* main, the call of load_state: File::open, then the loop over the lines
LoadState ==
    /\ pc = "load_state"
    /\ IF ~fs[file_path].exists
       THEN /\ Abort("File::open")
            /\ UNCHANGED <<todos, dones, stderr>>
       ELSE LET r == load_state(todos, dones, fs[file_path].bytes)
            IN  /\ todos' = r.todos
                /\ dones' = r.dones
                /\ IF r.err # 0
                   THEN Exit1(<<[path |-> file_path, line |-> r.err,
                                 text |-> "ERROR: item line format incorrectly"]>>)
                   ELSE pc' = "initscr" /\ UNCHANGED <<stderr, exit_code, panic>>
    /\ UNCHANGED <<file_path, fs, fs0, quit, todo_current, done_current, tab,
                   ui, screen, term, key>>

\* main, initscr and the terminal set-up that follows it
Initscr ==
    /\ pc = "initscr"
    /\ term' = [term EXCEPT !.initscr = @ + 1]
    /\ pc' = "render"
    /\ UNCHANGED <<file_path, fs, fs0, model, ui, screen, key, exit_code,
                   stderr, panic>>

\* a loop whose condition never ends it
loop_continues_always(q) == TRUE

\* while !quit
loop_continues(q) == ~q

\* the loop, from erase() to refresh()
Render ==
    /\ pc = "render"
    /\ LET u == render([list_current |-> ui.list_current, row |-> ui.row,
                        col |-> ui.col, out |-> <<>>, panic |-> NoPanic])
       IN  /\ ui' = [list_current |-> u.list_current, row |-> u.row, col |-> u.col]
           /\ screen' = u.out
           /\ IF u.panic # NoPanic
              THEN Abort(u.panic)
              ELSE pc' = "getch" /\ UNCHANGED <<exit_code, panic>>
    /\ key' = None
    /\ UNCHANGED <<file_path, fs, fs0, model, term, stderr>>

\* the end of a loop iteration whose key handler returned
\* (q is the quit flag the handler left)
NextIteration(q) ==
    /\ pc' = IF loop_continues(q) THEN "render" ELSE "pause"
    /\ UNCHANGED <<exit_code, panic>>

\* let key = getch(), returning a code that is matched as character ch
Getch(ch) ==
    /\ pc = "getch"
    /\ \E code \in KeyCodes : U8(code) = ch /\ key' = Some(code)

KeyQuit ==
    /\ Getch(KEY_q)
    /\ quit' = TRUE
    /\ NextIteration(TRUE)
    /\ UNCHANGED <<file_path, fs, fs0, todos, todo_current, dones, done_current,
                   tab, ui, screen, term, stderr>>

KeyUp ==
    /\ Getch(KEY_k)
    /\ IF tab = "Todo"
       THEN todo_current' = list_up(todo_current) /\ UNCHANGED done_current
       ELSE done_current' = list_up(done_current) /\ UNCHANGED todo_current
    /\ NextIteration(quit)
    /\ UNCHANGED <<file_path, fs, fs0, quit, todos, dones, tab, ui, screen,
                   term, stderr>>

\* the 'j' handler routed to the todo list whatever the tab
KeyDown_todo_only ==
    /\ Getch(KEY_j)
    /\ todo_current' = list_down(todos, todo_current)
    /\ UNCHANGED done_current
    /\ pc' = IF loop_continues(quit) THEN "render" ELSE "pause"
    /\ UNCHANGED <<exit_code, panic>>
    /\ UNCHANGED <<file_path, fs, fs0, quit, todos, dones, tab, ui, screen,
                   term, stderr>>

KeyDown ==
    /\ Getch(KEY_j)
    /\ IF tab = "Todo"
       THEN todo_current' = list_down(todos, todo_current) /\ UNCHANGED done_current
       ELSE done_current' = list_down(dones, done_current) /\ UNCHANGED todo_current
    /\ NextIteration(quit)
    /\ UNCHANGED <<file_path, fs, fs0, quit, todos, dones, tab, ui, screen,
                   term, stderr>>

KeyEnter ==
    /\ Getch(KEY_ENTER)
    /\ IF tab = "Todo"
       THEN LET r == list_transfer(dones, todos, todo_current)
            IN  /\ dones' = r.dst
                /\ todos' = r.src
                /\ todo_current' = r.curr
                /\ UNCHANGED done_current
       ELSE LET r == list_transfer(todos, dones, done_current)
            IN  /\ todos' = r.dst
                /\ dones' = r.src
                /\ done_current' = r.curr
                /\ UNCHANGED todo_current
    /\ NextIteration(quit)
    /\ UNCHANGED <<file_path, fs, fs0, quit, tab, ui, screen, term, stderr>>

\* 's' => todos.push(dones[done_current].clone())
KeyS ==
    /\ Getch(KEY_s)
    /\ IF done_current < Len(dones)
       THEN /\ Len(todos) + Len(dones) < MaxItems
            /\ todos' = Append(todos, dones[done_current + 1])
            /\ NextIteration(quit)
       ELSE /\ Abort("index out of bounds")
            /\ UNCHANGED todos
    /\ UNCHANGED <<file_path, fs, fs0, quit, todo_current, dones, done_current,
                   tab, ui, screen, term, stderr>>

\* the 'e' handler writing to the loaded path instead of the fixed file
KeyE_to_loaded_path ==
    /\ Getch(KEY_e)
    /\ \E created \in BOOLEAN :
          IF created
          THEN /\ fs' = [fs EXCEPT ![file_path] =
                            File(write_lines(todo_prefix, todos)
                                     \o write_lines(done_prefix, dones))]
               /\ NextIteration(quit)
          ELSE /\ Abort("File::create")
               /\ UNCHANGED fs
    /\ UNCHANGED <<file_path, fs0, model, ui, screen, term, stderr>>

\* 'e': File::create("TODO"), then the lines; write results are not looked at
KeyE ==
    /\ Getch(KEY_e)
    /\ \E created \in BOOLEAN :
          IF created
          THEN /\ fs' = [fs EXCEPT ![EXPORT_PATH] =
                            File(write_lines(todo_prefix, todos)
                                     \o write_lines(done_prefix, dones))]
               /\ NextIteration(quit)
          ELSE /\ Abort("File::create")
               /\ UNCHANGED fs
    /\ UNCHANGED <<file_path, fs0, model, ui, screen, term, stderr>>

KeyTab ==
    /\ Getch(KEY_TAB)
    /\ tab' = toggle(tab)
    /\ NextIteration(quit)
    /\ UNCHANGED <<file_path, fs, fs0, quit, todos, todo_current, dones,
                   done_current, ui, screen, term, stderr>>

BoundKeys == {KEY_q, KEY_k, KEY_j, KEY_ENTER, KEY_s, KEY_e, KEY_TAB}

\* _ => {}
KeyOther ==
    /\ \E ch \in {U8(code) : code \in KeyCodes} \ BoundKeys : Getch(ch)
    /\ NextIteration(quit)
    /\ UNCHANGED <<file_path, fs, fs0, model, ui, screen, term, stderr>>

\* the getch() after the loop; the code it returns is dropped
Pause ==
    /\ pc = "pause"
    /\ \E code \in KeyCodes : pc' = "save_state"
    /\ key' = None
    /\ UNCHANGED <<file_path, fs, fs0, model, ui, screen, term, exit_code,
                   stderr, panic>>

\* save_state(&todos, &dones, &file_path): File::create, then the lines
SaveState ==
    /\ pc = "save_state"
    /\ \E created \in BOOLEAN :
          IF created
          THEN /\ fs' = [fs EXCEPT ![file_path] = File(save_state(todos, dones))]
               /\ pc' = "endwin"
               /\ UNCHANGED <<exit_code, panic>>
          ELSE /\ Abort("File::create")
               /\ UNCHANGED fs
    /\ UNCHANGED <<file_path, fs0, model, ui, screen, term, key, stderr>>

\* endwin() and the return from main
Endwin ==
    /\ pc = "endwin"
    /\ term' = [term EXCEPT !.endwin = @ + 1]
    /\ pc' = "exited"
    /\ exit_code' = Some(EXIT_SUCCESS)
    /\ UNCHANGED <<file_path, fs, fs0, model, ui, screen, key, stderr, panic>>

Next ==
    \/ MainArgs
    \/ LoadState
    \/ Initscr
    \/ Render
    \/ KeyQuit
    \/ KeyUp
    \/ KeyDown
    \/ KeyEnter
    \/ KeyS
    \/ KeyE
    \/ KeyTab
    \/ KeyOther
    \/ Pause
    \/ SaveState
    \/ Endwin

Spec == Init /\ [][Next]_vars

\* ------------------------------------- list_up and list_down on their own
\* The two navigation functions applied to a list and a selection index of
\* the data model: any valid index for a non-empty list, any index up to
\* MaxNavIndex for an empty one.  The list is held in todos/todo_current.
NavItems == {<<"a">>, <<"b">>, <<"c">>}

NavInit ==
    /\ pc = "nav"
    /\ todos \in UNION { [1..n -> NavItems] : n \in 0..MaxNavLen }
    /\ todo_current \in (IF todos = <<>> THEN 0..MaxNavIndex
                                         ELSE 0..(Len(todos) - 1))
    /\ file_path = NoArg
    /\ fs = [q \in Paths |-> NoFile]
    /\ fs0 = fs
    /\ quit = FALSE
    /\ dones = <<>>
    /\ done_current = 0
    /\ tab = "Todo"
    /\ ui = [list_current |-> None, row |-> 0, col |-> 0]
    /\ screen = <<>>
    /\ term = [initscr |-> 0, endwin |-> 0]
    /\ key = None
    /\ exit_code = None
    /\ stderr = <<>>
    /\ panic = NoPanic

NavFrame ==
    UNCHANGED <<pc, file_path, fs, fs0, quit, todos, dones, done_current, tab,
                ui, screen, term, key, exit_code, stderr, panic>>

NavUp ==
    /\ pc = "nav"
    /\ todo_current' = list_up(todo_current)
    /\ NavFrame

NavDown ==
    /\ pc = "nav"
    /\ todo_current' = list_down(todos, todo_current)
    /\ NavFrame

NavNext ==
    \/ NavUp
    \/ NavDown

SpecNav == NavInit /\ [][NavNext]_vars

TypeOK ==
    /\ pc \in {"main", "load_state", "initscr", "render", "getch", "pause",
               "save_state", "endwin", "exited", "aborted"}
    /\ quit \in BOOLEAN
    /\ tab \in {"Todo", "Done"}
    /\ todo_current \in Nat
    /\ done_current \in Nat

\* ------------------------------------------------------------ properties
\* the list the active tab routes Enter to, its selection index, the other list
Src == IF tab = "Todo" THEN todos ELSE dones
SrcCurr == IF tab = "Todo" THEN todo_current ELSE done_current
Dst == IF tab = "Todo" THEN dones ELSE todos
\* the step in which getch returns Enter and its handler runs
EnterStep == pc = "getch" /\ key' = Some(KEY_ENTER)

item_a == <<"a">>
item_b == <<"b">>
item_c == <<"c">>

\* C1: in every state, each of the two lists that is non-empty has its
\* selection index within [0, length - 1].
C1_SelectionIndexInvariant ==
    /\ Len(todos) > 0 => todo_current \in 0..(Len(todos) - 1)
    /\ Len(dones) > 0 => done_current \in 0..(Len(dones) - 1)

\* The one loaded item was moved to done (todo became empty) and Enter in the
\* Done tab has just moved it back: the emptied todo list is non-empty again.
C1_Witness ==
    /\ key = Some(KEY_ENTER)
    /\ tab = "Done"
    /\ fs0[file_path].bytes = JoinLF(<<todo_prefix \o item_a>>)
    /\ todos = <<item_a>>
    /\ dones = <<>>

\* C2: no key handler ever indexes a list outside [0, length - 1]: the loop
\* never aborts with an out-of-bounds panic.
C2_NoBoundsFailure == panic # "index out of bounds"

\* C3: an Enter whose source list is non-empty shortens the source by one,
\* lengthens the destination by one, puts the item that was selected last in
\* the destination, keeps the destination's earlier elements and keeps the
\* remaining source elements in their order.
C3_TransferMovesSelected ==
    [][ (EnterStep /\ Len(Src) > 0) =>
            /\ Len(Src') = Len(Src) - 1
            /\ Len(Dst') = Len(Dst) + 1
            /\ Dst'[Len(Dst')] = Src[SrcCurr + 1]
            /\ SubSeq(Dst', 1, Len(Dst)) = Dst
            /\ Src' = [k \in 1..(Len(Src) - 1) |->
                          IF k <= SrcCurr THEN Src[k] ELSE Src[k + 1]] ]_vars

\* The scenario: [a, b] and [c], j, Enter: b has moved behind c.
C3_Witness ==
    /\ key = Some(KEY_ENTER)
    /\ tab = "Todo"
    /\ fs0[file_path].bytes = ScenarioFile
    /\ todos = <<item_a>>
    /\ dones = <<item_c, item_b>>

\* C4: an Enter whose source list is empty changes neither list nor either
\* selection index and does not abort, in either tab.
C4_TransferFromEmptyNoOp ==
    [][ (EnterStep /\ Len(Src) = 0) =>
            /\ UNCHANGED <<todos, dones, todo_current, done_current>>
            /\ pc' = "render"
            /\ panic' = NoPanic ]_vars

\* Enter was the last key, in the Done tab, and both lists are empty (had the
\* source held an item, the destination would hold it now).
C4_Witness ==
    /\ key = Some(KEY_ENTER)
    /\ tab = "Done"
    /\ todos = <<>>
    /\ dones = <<>>

\* C5: once 'q' is read nothing is rendered and no list, index or tab changes;
\* the next step is the one blocking key read, which changes nothing; the
\* only file written after it is the loaded path, by save_state; the terminal
\* is released after that write and only then.
C5_QuitOrdering ==
    [][ /\ (~quit /\ quit') => pc' = "pause"
        /\ quit => /\ UNCHANGED <<todos, dones, todo_current, done_current, tab>>
                   /\ UNCHANGED <<screen, ui>>
                   /\ pc \in {"pause", "save_state", "endwin"}
        /\ pc = "pause" => pc' = "save_state" /\ UNCHANGED <<fs, term>>
        /\ pc = "save_state" =>
              /\ UNCHANGED term
              /\ pc' \in {"endwin", "aborted"}
              /\ \A p \in Paths \ {file_path} : fs'[p] = fs[p]
        /\ pc = "endwin" =>
              /\ pc' = "exited"
              /\ UNCHANGED fs
              /\ term' = [term EXCEPT !.endwin = 1]
        /\ term'.endwin # term.endwin => pc = "endwin"
        /\ (quit /\ fs' # fs) => pc = "save_state" ]_vars

\* A run that quit, saved a changed state and released the terminal.
C5_Witness ==
    /\ pc = "exited"
    /\ quit
    /\ exit_code = Some(EXIT_SUCCESS)
    /\ term = [initscr |-> 1, endwin |-> 1]
    /\ fs[file_path] # fs0[file_path]

\* the lines save is to write: a TODO line per todo item, then a DONE line
\* per done item, each in list order
ExpectedLines ==
    [i \in 1..(Len(todos) + Len(dones)) |->
        IF i <= Len(todos)
        THEN todo_prefix \o todos[i]
        ELSE done_prefix \o dones[i - Len(todos)]]

\* C6: after the save at quit the file at the loaded path consists of one
\* `TODO: <text>` line per todo item in list order, then one `DONE: <text>`
\* line per done item in list order.
C6_SaveContent ==
    (pc = "endwin" \/ (pc = "exited" /\ exit_code = Some(EXIT_SUCCESS))) =>
        fs[file_path] = File(JoinLF(ExpectedLines))

\* The scenario: file [TODO: a, TODO: b, DONE: c], keys j, Enter, q and one
\* more key: the file is [TODO: a, DONE: c, DONE: b].
C6_Witness ==
    /\ pc = "exited"
    /\ exit_code = Some(EXIT_SUCCESS)
    /\ fs0[file_path].bytes = ScenarioFile
    /\ fs[file_path].bytes =
          JoinLF(<<todo_prefix \o item_a, done_prefix \o item_c,
                   done_prefix \o item_b>>)

\* C7: save_state followed by load_state into two empty lists reproduces the
\* two sequences, for all items without a newline character (empty items,
\* items that end in a carriage return and items that start with a prefix
\* included).
C7_RoundTrip ==
    pc = "endwin" =>
        LET r == load_state(<<>>, <<>>, fs[file_path].bytes)
        IN  r.err = 0 /\ r.todos = todos /\ r.dones = dones

\* line l starts with the six characters of prefix p
HasPrefix(l, p) == Len(l) >= 6 /\ \A i \in 1..6 : l[i] = p[i]
IsTodoLine(l) == HasPrefix(l, todo_prefix)
IsDoneLine(l) == HasPrefix(l, done_prefix)
\* the texts of lines ls: each without its first six characters
Texts(ls) == [i \in 1..Len(ls) |-> SubSeq(ls[i], 7, Len(ls[i]))]
\* the lines of the file at the loaded path when the process started
LoadedLines == lines(fs0[file_path].bytes)
\* the 1-based numbers of the lines that match neither prefix
BadLines ==
    {i \in 1..Len(LoadedLines) :
        ~IsTodoLine(LoadedLines[i]) /\ ~IsDoneLine(LoadedLines[i])}
FirstBadLine == CHOOSE i \in BadLines : \A j \in BadLines : i <= j

\* C8: when every line of the file starts with `TODO: ` or `DONE: `, load
\* yields todo = the texts of the TODO lines in file order and done = the
\* texts of the DONE lines in file order, a text being the line without its
\* first six characters.
C8_LoadOrdering ==
    (pc = "initscr" /\ BadLines = {}) =>
        /\ todos = Texts(SelectSeq(LoadedLines, IsTodoLine))
        /\ dones = Texts(SelectSeq(LoadedLines, IsDoneLine))

\* The interleaved file DONE: c / TODO: a / DONE: b has just been loaded.
C8_Witness ==
    /\ pc = "initscr"
    /\ Len(LoadedLines) = 3
    /\ IsDoneLine(LoadedLines[1]) /\ IsTodoLine(LoadedLines[2])
    /\ IsDoneLine(LoadedLines[3])
    /\ todos = <<item_a>>
    /\ dones = <<item_c, item_b>>

\* load has run on an existing file with a line that matches neither prefix
FormatError ==
    /\ file_path # NoArg
    /\ pc \notin {"main", "load_state"}
    /\ fs0[file_path].exists
    /\ BadLines # {}
\* main has run without a file-path argument
UsageError == file_path = NoArg /\ pc # "main"

\* C9: when the loaded file has a line that matches neither prefix, the
\* process ends with exit status 1, the diagnostic carries the file path and
\* the 1-based number of the first such line, and no line after it was read.
C9_FormatErrorOutcome ==
    FormatError =>
        /\ pc = "exited"
        /\ exit_code = Some(1)
        /\ Len(stderr) = 1
        /\ stderr[1].path = file_path
        /\ stderr[1].line = FirstBadLine
        /\ Len(todos) + Len(dones) = FirstBadLine - 1

\* A file whose second line is the first bad one has stopped the process.
C9_Witness ==
    /\ FormatError
    /\ pc = "exited"
    /\ BadLines = {2}
    /\ stderr[1].line = 2

\* C10: after a usage error or a format error the process has exited with
\* the terminal never initialised, no frame rendered, no key read and the
\* file system exactly as it was at the start.
C10_FailFastBeforeUi ==
    (UsageError \/ FormatError) =>
        /\ pc = "exited"
        /\ exit_code = Some(1)
        /\ term = [initscr |-> 0, endwin |-> 0]
        /\ screen = <<>>
        /\ key = None
        /\ fs = fs0

\* A format error on the first line of the export path's own file.
C10_Witness ==
    /\ FormatError
    /\ pc = "exited"
    /\ file_path = EXPORT_PATH
    /\ 1 \in BadLines

\* C11: the terminal is acquired once, before the loop, and on every way out
\* of the process after that (normal or abnormal) it has been released once.
C11_TerminalReleased ==
    /\ term.initscr <= 1
    /\ term.endwin <= term.initscr
    /\ (pc \in {"exited", "aborted"} /\ term.initscr = 1) => term.endwin = 1

\* the step in which getch returns a code matched as character ch
KeyStep(ch) == pc = "getch" /\ key' # None /\ U8(key'[1]) = ch

\* C12: in either tab a press of 's' appends a copy of the item at the done
\* list's selection index to the end of the todo list and changes nothing
\* else (done list, both indices, tab).
C12_CopyDoneToTodo ==
    [][ KeyStep(KEY_s) =>
            /\ done_current < Len(dones)
            /\ todos' = Append(todos, dones[done_current + 1])
            /\ UNCHANGED <<dones, todo_current, done_current, tab, quit>>
            /\ pc' = "render" ]_vars

\* the same, for the presses at which the done list holds an item
C12_CopyWhenDoneNonEmpty ==
    [][ (KeyStep(KEY_s) /\ Len(dones) > 0) =>
            /\ done_current < Len(dones)
            /\ todos' = Append(todos, dones[done_current + 1])
            /\ UNCHANGED <<dones, todo_current, done_current, tab, quit>>
            /\ pc' = "render" ]_vars

\* the selection index of the list the active tab does not show
DstCurr == IF tab = "Todo" THEN done_current ELSE todo_current

\* C13: k and j change at most the active tab's selection index; Enter takes
\* from the active tab's list and appends to the other list, whose selection
\* index it leaves alone; Tab switches the tab and changes neither list nor
\* either index.
C13_KeyRoutingByTab ==
    [][ /\ (KeyStep(KEY_k) \/ KeyStep(KEY_j)) =>
              /\ UNCHANGED <<todos, dones, tab>>
              /\ DstCurr' = DstCurr
        /\ KeyStep(KEY_ENTER) =>
              /\ UNCHANGED tab
              /\ DstCurr' = DstCurr
              /\ Len(Src) > 0 =>
                    /\ Len(Src') = Len(Src) - 1
                    /\ Dst' = Append(Dst, Src[SrcCurr + 1])
              /\ Len(Src) = 0 => UNCHANGED <<todos, dones>>
        /\ KeyStep(KEY_TAB) =>
              /\ tab' = (IF tab = "Todo" THEN "Done" ELSE "Todo")
              /\ UNCHANGED <<todos, dones, todo_current, done_current>> ]_vars

\* In the Done tab 'j' has moved the done selection to 1 while the todo list
\* (one item, so any move of its index would have been a change) stayed at 0.
C13_Witness ==
    /\ key = Some(KEY_j)
    /\ tab = "Done"
    /\ Len(dones) = 2
    /\ done_current = 1
    /\ Len(todos) = 1
    /\ todo_current = 0

\* C14: a key code that is not the code of q, k, j, Enter, s, e or Tab
\* (codes of 256 and above and the read-error value -1 included) leaves the
\* tab, both sequences, both indices and the quit flag unchanged and writes
\* no file.
C14_UnboundCodesIgnored ==
    [][ (pc = "getch" /\ key' # None /\ key'[1] \notin BoundKeys) =>
            /\ UNCHANGED <<tab, todos, dones, todo_current, done_current, quit>>
            /\ UNCHANGED fs ]_vars

\* the same, for the codes whose low eight bits are not a bound character
C14_UnboundCharsIgnored ==
    [][ (pc = "getch" /\ key' # None /\ U8(key'[1]) \notin BoundKeys) =>
            /\ UNCHANGED <<tab, todos, dones, todo_current, done_current, quit>>
            /\ UNCHANGED fs
            /\ pc' = "render" ]_vars

\* C15: on a non-empty list, 'k' with the selection at 0 leaves it at 0 and
\* 'j' with the selection at length - 1 leaves it at length - 1, so any
\* number of repetitions does.
C15_IdempotentAtBounds ==
    [][ /\ (KeyStep(KEY_k) /\ Len(Src) > 0 /\ SrcCurr = 0) =>
              SrcCurr' = 0 /\ Src' = Src
        /\ (KeyStep(KEY_j) /\ Len(Src) > 0 /\ SrcCurr = Len(Src) - 1) =>
              SrcCurr' = Len(Src) - 1 /\ Src' = Src ]_vars

\* 'j' has just been pressed on a todo list of two items with the selection
\* already at the last one: the frame on screen, drawn before the press,
\* highlights the last item.
C15_Witness ==
    /\ key = Some(KEY_j)
    /\ tab = "Todo"
    /\ Len(todos) = 2
    /\ todo_current = 1
    /\ Len(screen) = 4
    /\ screen[4].pair = HIGHLIGHT_PAIR

\* C16: an 'e' press whose File::create succeeds leaves in the fixed file
\* `TODO` exactly the bytes save_state would write for the current lists,
\* touches no other file and leaves tab, sequences, indices and quit flag
\* unchanged, whatever path was loaded.
C16_ExportWritesSaveFormat ==
    [][ (KeyStep(KEY_e) /\ pc' # "aborted") =>
            /\ fs'[EXPORT_PATH] = File(save_state(todos, dones))
            /\ \A p \in Paths \ {EXPORT_PATH} : fs'[p] = fs[p]
            /\ UNCHANGED <<tab, todos, dones, todo_current, done_current, quit>>
            /\ pc' = "render" ]_vars

\* 'e' has just run with another path loaded and both lists non-empty: the
\* loaded file is as it was and `TODO` holds both kinds of line.
C16_Witness ==
    /\ key = Some(KEY_e)
    /\ pc = "render"
    /\ file_path # EXPORT_PATH
    /\ todos # <<>>
    /\ dones # <<>>
    /\ fs[file_path] = fs0[file_path]
    /\ fs[EXPORT_PATH].exists
    /\ fs[EXPORT_PATH].bytes = JoinLF(ExpectedLines)

\* In the program an empty list always has selection index 0.
EmptyListIndexZero ==
    /\ todos = <<>> => todo_current = 0
    /\ dones = <<>> => done_current = 0

assert_nested == "NESTED LISTS -> NOT ALLOWED"
assert_outside == "LIST ELEMENTS -> NOT ALLOWED TO CREATE ELEMENT OUTSIDE OF LIST"

\* C18: in every frame the list context is closed when begin_list is called
\* and open at every list_element, and it is closed again when the frame
\* ends: neither assertion of the Ui ever fires, with the one Ui value used
\* by all frames.
C18_ListContextProtocol ==
    /\ panic \notin {assert_nested, assert_outside}
    /\ ui.list_current = None
    /\ pc = "getch" =>
          /\ Len(screen) >= 2 + Len(Src)
          /\ \A i \in 1..Len(Src) : screen[2 + i].row = 1 + i

\* A later frame (the Done tab is only shown after a Tab press) that drew two
\* list elements with the Ui value of the frames before it.
C18_Witness ==
    /\ pc = "getch"
    /\ tab = "Done"
    /\ Len(dones) = 2
    /\ Len(screen) = 4
    /\ ui.row = 4

\* the draw calls of the frame on screen that use the highlight pair
Highlighted == {i \in 1..Len(screen) : screen[i].pair = HIGHLIGHT_PAIR}
\* the text in front of an element of the active tab's list
SrcBox == IF tab = "Todo" THEN <<"[", " ", "]", " ">> ELSE <<"[", "x", "]", " ">>

\* C19: in every rendered frame, if the active tab's list is non-empty then
\* exactly one draw call uses the highlight pair, it is the element of the
\* item at the list's selection index and it is on row 2 + index; if the
\* list is empty nothing is highlighted.
C19_HighlightUnique ==
    pc = "getch" =>
        IF Len(Src) > 0
        THEN \E i \in 1..Len(screen) :
                /\ Highlighted = {i}
                /\ screen[i].row = 2 + SrcCurr
                /\ screen[i].text = SrcBox \o Src[SrcCurr + 1]
        ELSE Highlighted = {}

\* A frame of the Done tab with two items, the second selected: the
\* highlight is on row 3 and the first element is drawn regular.
C19_Witness ==
    /\ pc = "getch"
    /\ tab = "Done"
    /\ Len(dones) = 2
    /\ done_current = 1
    /\ Highlighted = {4}
    /\ screen[4].row = 3

\* how often item x occurs in list s
Count(x, s) == Cardinality({i \in 1..Len(s) : s[i] = x})
\* the items of list s
Items(s) == {s[i] : i \in 1..Len(s)}
\* how often x is held by the two lists together
Held(x) == Count(x, todos) + Count(x, dones)

\* C20: a key step other than 's' leaves the multiset of the items held by
\* todo and done together unchanged; an 's' step whose handler returns adds
\* exactly one occurrence of one item (one that aborts changes nothing).
C20_ItemConservation ==
    [][ (pc = "getch" /\ key' # None) =>
            LET all == Items(todos) \cup Items(dones)
                           \cup Items(todos') \cup Items(dones')
                same == \A x \in all : Held(x)' = Held(x)
                one_more == \E y \in all :
                               /\ Held(y)' = Held(y) + 1
                               /\ \A x \in all \ {y} : Held(x)' = Held(x)
            IN  IF U8(key'[1]) = KEY_s
                THEN IF pc' = "aborted" THEN same ELSE one_more
                ELSE same ]_vars

\* The one loaded done item was copied by 's' and the copy then moved by
\* Enter: done holds it twice, todo is empty.
C20_Witness ==
    /\ key = Some(KEY_ENTER)
    /\ tab = "Todo"
    /\ fs0[file_path].bytes = JoinLF(<<done_prefix \o item_c>>)
    /\ todos = <<>>
    /\ dones = <<item_c, item_c>>

====
